---- MODULE Spec2Model ----
(***************************************************************************)
(* A model of the zombo crate: the Zomboid windowed aggregator             *)
(* (crates/zombo/src/lib.rs), its row types (crates/zombo/src/model.rs)    *)
(* and the Table renderer (zombo/src/table.rs).                            *)
(*                                                                         *)
(* The record source `it` is a finite sequence of Result<Item, E> values   *)
(* with a forward-only cursor `pos` (the number of records consumed).      *)
(* Option<T> is modelled as a sequence of length 0 (None) or 1 (Some).     *)
(***************************************************************************)
EXTENDS Integers, Sequences, FiniteSets, TLC

\* Longest record source explored.
MaxLen == 3

\* Largest value handed to set_skip / set_take.
MaxWin == 1

\* The range of u32 (2^32) counted in units of 2^29: every amount of the
\* model is a multiple of 2^29, written as its number of units 0..7, so
\* a sum of 8 units or more is one that does not fit a u32.
U32Modulus == 8

\* usize::MAX, the take count of an unset take.  Only "larger than every
\* source" matters, so the largest integer TLC computes with stands for it.
UsizeMax == 2147483647

\* Most data rows of a rendered table, and the largest width handed to
\* with_width besides the two widths the crate itself uses.
MaxRows == 2
MaxWidth == 21

\* Table::new's width and the width describe() sets.
DefaultWidth == 100
StatWidth == 40

VARIABLES
    it,      \* Zomboid.it: the records of the underlying iterator
    pos,     \* how many records of `it` the iterator has yielded so far
    skip_,   \* Zomboid._skip : Option<usize>
    take_,   \* Zomboid._take : Option<usize>
    res,     \* what the most recent stream()/describe() call returned
    entry,   \* cursor and window at the entry of that call
    ncalls,  \* stream()/describe() calls made so far: 0, 1, or 2 for "2 or more"
    table,   \* the Table value at hand in the renderer
    out      \* what Display::fmt wrote for `table`

vars == <<it, pos, skip_, take_, res, entry, ncalls, table, out>>
zvars == <<it, pos, skip_, take_, res, entry, ncalls>>
tvars == <<table, out>>

Min(a, b) == IF a <= b THEN a ELSE b
Max(a, b) == IF a >= b THEN a ELSE b

---------------------------------------------------------------------------
\* Option<T>

None == <<>>
Some(v) == <<v>>
unwrap_or(o, d) == IF o = None THEN d ELSE o[1]

---------------------------------------------------------------------------
\* Records of the source: Result<Item, E>.  Of an Item the model keeps the
\* fields describe() reads.  An Err keeps its error value, which names the
\* place of the bad record in the source (as a csv::Error does), so that
\* two errors of one source are different values.

NoErr == None
OkRec(c, a) == [ok |-> TRUE, condition |-> c, amount |-> a, err |-> NoErr]
ErrRec(e) == [ok |-> FALSE, condition |-> "-", amount |-> 0, err |-> Some(e)]

OkRecords == {OkRec("Mint", 0), OkRec("Mint", 1), OkRec("Good", 5)}
Sources ==
    UNION {{[i \in 1..n |-> IF f[i].ok THEN f[i] ELSE ErrRec(i)] :
              f \in [1..n -> OkRecords \cup {ErrRec(1)}]} : n \in 0..MaxLen}
WindowValues == {None} \cup {Some(n) : n \in 0..MaxWin}

---------------------------------------------------------------------------
\* Table<T>: the builder methods.  A header is the sequence of the display
\* lengths of its cells.

TableNew(data) == [header |-> None, width |-> DefaultWidth, data |-> data]
with_header(t, header) == [t EXCEPT !.header = Some(header)]
with_width(t, width) == [t EXCEPT !.width = width]

\* "ID", "NAME", "TYPE", "CONDITION", "AMOUNT"
ItemHeader == <<2, 4, 4, 9, 6>>
\* "CONDITION", "%"
StatHeader == <<9, 1>>

---------------------------------------------------------------------------
\* Rendering.  A row is [kind, cells]: an Item row has the five cells id,
\* name, item_type, condition and amount, a Stat row the two cells name and
\* "{:04.1}%" of value * 100; `cells` holds the display length of each.  A
\* rendered line is [kind, row, len, nl]: what it is, which data row it
\* shows (0 for the other lines), how many characters long, and whether a
\* line break follows it.

Row(kind, cells) == [kind |-> kind, cells |-> cells]
Line(kind, row, len, nl) == [kind |-> kind, row |-> row, len |-> len, nl |-> nl]

\* usize `a - b` and `a / b`.  A difference below zero panics with overflow
\* checks and wraps to a value near 2^64 without them; a division by zero
\* panics in every build.
SubUsize(a, b, checks) ==
    IF a >= b THEN [st |-> "ok", val |-> a - b]
    ELSE IF checks THEN [st |-> "panic", val |-> 0]
    ELSE [st |-> "wrapped", val |-> 0]

DivUsize(a, b) ==
    IF b = 0 THEN [st |-> "panic", val |-> 0] ELSE [st |-> "ok", val |-> a \div b]

\* `table_width / n - 3`, the width of a cell of a row of n cells
CellWidth(table_width, n, checks) ==
    LET q == DivUsize(table_width, n)
    IN IF q.st # "ok" THEN q ELSE SubUsize(q.val, 3, checks)

\* "{:^width$}": content centred in `width` characters, and left as it is
\* when it is longer.
Pad(content, width) == Max(content, width)

RECURSIVE SumPadded(_, _)
SumPadded(cells, width) ==
    IF cells = <<>> THEN 0
    ELSE Pad(Head(cells), width) + SumPadded(Tail(cells), width)

\* A line padded to a wrapped width (about 2^64 characters) cannot be
\* built: the process runs out of memory and aborts.
Formatted(w, len) ==
    IF w.st = "ok" THEN [st |-> "ok", len |-> len]
    ELSE IF w.st = "wrapped" THEN [st |-> "abort", len |-> 0]
    ELSE [st |-> "panic", len |-> 0]

\* Item::to_row: "│ {} │ {} │ {} │ {} │ {}│"
item_to_row(cells, table_width, checks) ==
    LET w == CellWidth(table_width, 5, checks)
    IN Formatted(w, SumPadded(cells, w.val) + 15)

\* Stat::to_row: "│ {} │ {}│"
stat_to_row(cells, table_width, checks) ==
    LET w == CellWidth(table_width, 2, checks)
    IN Formatted(w, SumPadded(cells, w.val) + 6)

\* Vec<H>::to_row: "│ {} " for every cell, then the last character
\* replaced by "│" (of a row without cells nothing is popped and "│" is
\* all there is; the division by its length 0 panics before that).
vec_to_row(cells, table_width, checks) ==
    LET w == CellWidth(table_width, Len(cells), checks)
    IN Formatted(w, SumPadded(cells, w.val) + 3 * Len(cells))

to_row(row, table_width, checks) ==
    IF row.kind = "Item" THEN item_to_row(row.cells, table_width, checks)
    ELSE stat_to_row(row.cells, table_width, checks)

\* top_sep / middle_sep / bottom_sep: a corner, width - 2 rules, a corner
Sep(t, checks) ==
    LET w == SubUsize(t.width, 2, checks)
    IN Formatted(w, w.val + 2)

\* A variant of WriteBottom with a slip in it: writeln! for write!
WriteBottomLn(lines, len) == Append(lines, Line("bottom", 0, len, TRUE))

\* write!(f, "{}", bot): the last line, with no line break after it
WriteBottom(lines, len) == Append(lines, Line("bottom", 0, len, FALSE))

\* The loop over self.data, from row i on
RECURSIVE WriteRows(_, _, _, _, _)
WriteRows(t, i, lines, bot, checks) ==
    IF i > Len(t.data)
    THEN [status |-> "ok", lines |-> WriteBottom(lines, bot)]
    ELSE LET r == to_row(t.data[i], t.width, checks)
         IN IF r.st # "ok"
            THEN [status |-> r.st, lines |-> lines]
            ELSE WriteRows(t, i + 1, Append(lines, Line("row", i, r.len, TRUE)), bot, checks)

\* Display::fmt.  What was written before a panic stays written.
Fmt(t, checks) ==
    LET sep == Sep(t, checks)
        top == <<Line("top", 0, sep.len, TRUE)>>
    IN IF sep.st # "ok"
       THEN [status |-> sep.st, lines |-> <<>>]
       ELSE IF t.header = None
       THEN WriteRows(t, 1, top, sep.len, checks)
       ELSE LET h == vec_to_row(t.header[1], t.width, checks)
            IN IF h.st # "ok"
               THEN [status |-> h.st, lines |-> top]
               ELSE WriteRows(t, 1,
                              top \o <<Line("header", 0, h.len, TRUE),
                                       Line("middle", 0, sep.len, TRUE)>>,
                              sep.len, checks)

---------------------------------------------------------------------------
\* it.by_ref().skip(sk).take(tk): one call of next() on Take<Skip<&mut I>>.
\* Take::next yields None without polling once its count is 0; Skip::next
\* with a pending count n calls nth(n), which discards n records whatever
\* they are and yields the one after them.

\* Variants of SkipTakeNext with a slip in them, which the properties below
\* must tell from it: the skip count ignored; the skip count read as an offset from
\* the start of the source; take polling once more than its count.
SkipTakeNextNoSkip(src, p, sk, tk) ==
    IF tk = 0
    THEN [item |-> None, pos |-> p, sk |-> sk, tk |-> tk]
    ELSE IF p >= Len(src)
         THEN [item |-> None, pos |-> Len(src), sk |-> 0, tk |-> tk - 1]
         ELSE [item |-> Some(src[p + 1]), pos |-> p + 1, sk |-> 0, tk |-> tk - 1]

SkipTakeNextSeek(src, p, sk, tk) ==
    IF tk = 0
    THEN [item |-> None, pos |-> p, sk |-> sk, tk |-> tk]
    ELSE LET q == IF sk > 0 THEN Min(sk, Len(src)) ELSE p
         IN IF q >= Len(src)
            THEN [item |-> None, pos |-> Len(src), sk |-> 0, tk |-> tk - 1]
            ELSE [item |-> Some(src[q + 1]), pos |-> q + 1, sk |-> 0, tk |-> tk - 1]

SkipTakeNextTakeExtra(src, p, sk, tk) ==
    IF tk < 0
    THEN [item |-> None, pos |-> p, sk |-> sk, tk |-> tk]
    ELSE LET q == Min(p + sk, Len(src))
         IN IF q >= Len(src)
            THEN [item |-> None, pos |-> Len(src), sk |-> 0, tk |-> tk - 1]
            ELSE [item |-> Some(src[q + 1]), pos |-> q + 1, sk |-> 0, tk |-> tk - 1]

SkipTakeNext(src, p, sk, tk) ==
    IF tk = 0
    THEN [item |-> None, pos |-> p, sk |-> sk, tk |-> tk]
    ELSE LET q == Min(p + sk, Len(src))
         IN IF q >= Len(src)
            THEN [item |-> None, pos |-> Len(src), sk |-> 0, tk |-> tk - 1]
            ELSE [item |-> Some(src[q + 1]), pos |-> q + 1, sk |-> 0, tk |-> tk - 1]

\* collect::<Result<Vec<Item>, E>>(): pull until None or the first Err.
RECURSIVE Collect(_, _, _, _, _)
Collect(src, p, sk, tk, acc) ==
    LET n == SkipTakeNext(src, p, sk, tk)
    IN IF n.item = None
       THEN [status |-> "ok", items |-> acc, err |-> NoErr, pos |-> n.pos]
       ELSE IF ~n.item[1].ok
       THEN [status |-> "err", items |-> <<>>, err |-> n.item[1].err, pos |-> n.pos]
       ELSE Collect(src, n.pos, n.sk, n.tk, Append(acc, n.item[1]))

---------------------------------------------------------------------------
\* u32 `+=`: with overflow checks (a debug build) an overflowing sum
\* panics, without them (a release build) it wraps.

AddU32(a, b, checks) ==
    IF a + b < U32Modulus THEN [panic |-> FALSE, val |-> a + b]
    ELSE IF checks THEN [panic |-> TRUE, val |-> 0]
    ELSE [panic |-> FALSE, val |-> (a + b) % U32Modulus]

\* HashMap::entry(k).or_insert(0)
MapGet(m, k) == IF k \in DOMAIN m THEN m[k] ELSE 0
MapPut(m, k, v) == [x \in (DOMAIN m) \cup {k} |-> IF x = k THEN v ELSE m[x]]
EmptyMap == [x \in {} |-> 0]

\* The for loop of describe(): the first Err returns it, each Ok record
\* adds its amount to its condition's entry and then to the total.
RECURSIVE Accumulate(_, _, _, _, _, _, _)
Accumulate(src, p, sk, tk, m, total, checks) ==
    LET n == SkipTakeNext(src, p, sk, tk)
    IN IF n.item = None
       THEN [status |-> "ok", map |-> m, total |-> total, err |-> NoErr, pos |-> n.pos]
       ELSE IF ~n.item[1].ok
       THEN [status |-> "err", map |-> EmptyMap, total |-> 0, err |-> n.item[1].err,
             pos |-> n.pos]
       ELSE LET item == n.item[1]
                g == AddU32(MapGet(m, item.condition), item.amount, checks)
                t == AddU32(total, item.amount, checks)
            IN IF g.panic \/ t.panic
               THEN [status |-> "panic", map |-> EmptyMap, total |-> 0, err |-> NoErr,
                     pos |-> n.pos]
               ELSE Accumulate(src, n.pos, n.sk, n.tk,
                               MapPut(m, item.condition, g.val), t.val, checks)

\* (amount as f64) / (total as f64).  Both conversions are exact; the
\* quotient is kept as the fraction in lowest terms, 0/0 is NaN and x/0 is
\* +inf, as IEEE 754 division gives.
RECURSIVE Gcd(_, _)
Gcd(a, b) == IF b = 0 THEN a ELSE Gcd(b, a % b)

F64Div(a, b) ==
    IF b = 0
    THEN [kind |-> IF a = 0 THEN "NaN" ELSE "inf", num |-> 0, den |-> 0]
    ELSE [kind |-> "finite", num |-> a \div Gcd(a, b), den |-> b \div Gcd(a, b)]

Stat(name, amount, total) == [name |-> name, value |-> F64Div(amount, total)]

\* map_per_condition.into_iter(): every key once, in an order HashMap
\* leaves unspecified.
Orders(S) == {o \in [1..Cardinality(S) -> S] : \A i, j \in DOMAIN o : i # j => o[i] # o[j]}

---------------------------------------------------------------------------
\* The Zomboid

NoRes == [op |-> "none", status |-> "none", err |-> NoErr, table |-> None]
Alive == res.status # "panic"

ZInit ==
    /\ pos = 0
    /\ skip_ = None
    /\ take_ = None
    /\ res = NoRes
    /\ entry = [pos |-> 0, skip |-> None, take |-> None]
    /\ ncalls = 0

set_take(v) ==
    /\ Alive
    /\ take_' = v
    /\ UNCHANGED <<it, pos, skip_, res, entry, ncalls, table, out>>

\* A variant of set_skip with a slip in it: it resets the take as well
set_skip_resets_take(v) ==
    /\ Alive
    /\ skip_' = v
    /\ take_' = None
    /\ UNCHANGED <<it, pos, res, entry, ncalls, table, out>>

set_skip(v) ==
    /\ Alive
    /\ skip_' = v
    /\ UNCHANGED <<it, pos, take_, res, entry, ncalls, table, out>>

StreamResult(c) ==
    IF c.status = "ok"
    THEN [op |-> "stream", status |-> "ok", err |-> NoErr,
          table |-> Some(with_header(TableNew(c.items), ItemHeader))]
    ELSE [op |-> "stream", status |-> "err", err |-> c.err, table |-> None]

stream ==
    /\ Alive
    /\ LET c == Collect(it, pos, unwrap_or(skip_, 0), unwrap_or(take_, UsizeMax), <<>>)
       IN /\ pos' = c.pos
          /\ res' = StreamResult(c)
    /\ entry' = [pos |-> pos, skip |-> skip_, take |-> take_]
    /\ ncalls' = Min(ncalls + 1, 2)
    /\ UNCHANGED <<it, skip_, take_, table, out>>

DescribeResult(a, order) ==
    IF a.status = "ok"
    THEN [op |-> "describe", status |-> "ok", err |-> NoErr,
          table |-> Some(with_width(
                        with_header(
                            TableNew([i \in DOMAIN order |->
                                         Stat(order[i], a.map[order[i]], a.total)]),
                            StatHeader),
                        StatWidth))]
    ELSE [op |-> "describe", status |-> a.status, err |-> a.err, table |-> None]

describe ==
    /\ Alive
    /\ \E checks \in BOOLEAN :
         LET a == Accumulate(it, pos, unwrap_or(skip_, 0), unwrap_or(take_, UsizeMax),
                             EmptyMap, 0, checks)
         IN /\ pos' = a.pos
            /\ \E order \in Orders(DOMAIN a.map) : res' = DescribeResult(a, order)
    /\ entry' = [pos |-> pos, skip |-> skip_, take |-> take_]
    /\ ncalls' = Min(ncalls + 1, 2)
    /\ UNCHANGED <<it, skip_, take_, table, out>>

NoTable == TableNew(<<>>)
NoOut == [status |-> "none", lines |-> <<>>]

Init ==
    /\ it \in Sources
    /\ ZInit
    /\ table = NoTable
    /\ out = NoOut

Next ==
    \/ \E v \in WindowValues : set_take(v)
    \/ \E v \in WindowValues : set_skip(v)
    \/ stream
    \/ describe

Spec == Init /\ [][Next]_vars

---------------------------------------------------------------------------
\* The Table on its own: built from rows, given a header and a width, and
\* rendered.  The rows, headers and widths tried are those of the crate's
\* tests and of its two callers, and small ones beside them.

\* ("1", "Test", "Test", "Good", "10"), ("3", "Garden saw", "Tool", "New", "2")
\* and a row of one-character cells
ItemRows == {Row("Item", <<1, 4, 4, 4, 2>>), Row("Item", <<1, 10, 4, 3, 1>>),
             Row("Item", <<1, 1, 1, 1, 1>>)}
\* ("Mint", "21.4%"), ("Good", "100.0%")
StatRows == {Row("Stat", <<4, 5>>), Row("Stat", <<4, 6>>)}
DataSets ==
    UNION {[1..n -> ItemRows] \cup [1..n -> StatRows] : n \in 0..MaxRows}
Headers == {<<>>, <<1, 1>>, StatHeader, ItemHeader}
Widths == (0..MaxWidth) \cup {StatWidth, DefaultWidth}

Rendering == out.status \in {"none", "ok"}

TInit ==
    /\ table \in {TableNew(d) : d \in DataSets}
    /\ out = NoOut

WithHeader(h) ==
    /\ Rendering
    /\ table' = with_header(table, h)
    /\ out' = NoOut
    /\ UNCHANGED zvars

WithWidth(w) ==
    /\ Rendering
    /\ table' = with_width(table, w)
    /\ out' = NoOut
    /\ UNCHANGED zvars

Render ==
    /\ Rendering
    /\ \E checks \in BOOLEAN : out' = Fmt(table, checks)
    /\ UNCHANGED <<table, it, pos, skip_, take_, res, entry, ncalls>>

InitTable ==
    /\ it = <<>>
    /\ ZInit
    /\ TInit

NextTable ==
    \/ \E h \in Headers : WithHeader(h)
    \/ \E w \in Widths : WithWidth(w)
    \/ Render

SpecTable == InitTable /\ [][NextTable]_vars

---------------------------------------------------------------------------
\* Properties of the Zomboid.  The window of the most recent call, read
\* from `entry`: it skipped the positions SkippedFirst..SkippedLast of the
\* source and was to collect the positions WindowFirst..WindowLast.

AllOk(src) == \A i \in DOMAIN src : src[i].ok
Data == res.table[1].data
EntrySkip == unwrap_or(entry.skip, 0)
SkippedFirst == entry.pos + 1
SkippedLast == Min(Len(it), entry.pos + EntrySkip)
WindowFirst == entry.pos + EntrySkip + 1
WindowLast ==
    IF entry.take = None THEN Len(it)
    ELSE Min(Len(it), entry.pos + EntrySkip + entry.take[1])
Window == WindowFirst..WindowLast
WindowAllOk == \A i \in Window : it[i].ok
WindowConditions == {it[i].condition : i \in Window}

\* The exact (unbounded) sum of the amounts at lo..hi whose condition is in cs.
RECURSIVE SumAmounts(_, _, _, _)
SumAmounts(src, lo, hi, cs) ==
    IF lo > hi THEN 0
    ELSE (IF src[lo].condition \in cs THEN src[lo].amount ELSE 0)
         + SumAmounts(src, lo + 1, hi, cs)

WindowTotal == SumAmounts(it, WindowFirst, WindowLast, WindowConditions)

\* min(t, max(0, n - s)), an absent t meaning unbounded
WindowSize(n, s, t) ==
    IF t = None THEN Max(0, n - s) ELSE Min(t[1], Max(0, n - s))

\* C1: on a source whose records are all Ok, the first stream() of a fresh
\* Zomboid with window (skip = s, take = t) returns exactly
\* min(t, max(0, |S| - s)) records, and they are the records at the
\* positions [s, s + t) of the source, in source order.
C1_FirstStreamWindow ==
    (ncalls = 1 /\ res.op = "stream" /\ AllOk(it)) =>
        LET s == unwrap_or(entry.skip, 0)
            k == WindowSize(Len(it), s, entry.take)
        IN /\ res.status = "ok"
           /\ res.table # None
           /\ Len(Data) = k
           /\ Data = SubSeq(it, s + 1, s + k)

C1_Witness ==
    /\ ncalls = 1 /\ res.op = "stream" /\ AllOk(it) /\ Len(it) = 3
    /\ entry.skip = Some(1) /\ entry.take = Some(1)
    /\ res.status = "ok" /\ Data = <<it[2]>>

\* C2: stream() is not idempotent.  On a source whose records are all Ok,
\* after a first stream() with window (s1, t1), t1 >= 1 or unset, a second
\* stream() with window (s2, t2) returns exactly the records at the
\* positions [p + s2, p + s2 + t2) with p = min(|S|, s1 + t1): it goes on
\* from where the first call stopped and its skip counts from there.
C2_SecondStreamContinues ==
    [][(/\ ncalls = 1 /\ res.op = "stream" /\ entry.take # Some(0)
        /\ ncalls' = 2 /\ res'.op = "stream" /\ AllOk(it))
       => LET p == IF entry.take = None THEN Len(it)
                   ELSE Min(Len(it), unwrap_or(entry.skip, 0) + entry.take[1])
              s2 == unwrap_or(skip_, 0)
              k == WindowSize(Len(it) - p, s2, take_)
          IN /\ res'.status = "ok"
             /\ res'.table # None
             /\ res'.table[1].data = SubSeq(it, p + s2 + 1, p + s2 + k)]_vars

C2_Witness ==
    /\ ncalls = 2 /\ res.op = "stream" /\ AllOk(it) /\ Len(it) = 3
    /\ entry.pos = 1 /\ entry.skip = Some(1) /\ entry.take = Some(1)
    /\ res.status = "ok" /\ Data = <<it[3]>>

\* C3: when the first Err of the unconsumed source lies among the positions
\* a call collects, stream() and describe() each return exactly that error
\* and no table.
FirstErr == 
    LET bad == {i \in (entry.pos + 1)..Len(it) : ~it[i].ok}
    IN IF bad = {} THEN 0 ELSE CHOOSE i \in bad : \A j \in bad : i <= j

C3_ErrorInWindowReturned ==
    (res.op # "none" /\ FirstErr \in Window) =>
        /\ res.status = "err"
        /\ res.err = it[FirstErr].err
        /\ res.table = None

\* C4: an Err among the skipped positions of a call aborts stream() and
\* describe(), which return it.
C4_ErrorInSkippedPrefixReturned ==
    (res.op # "none" /\ FirstErr \in SkippedFirst..SkippedLast) =>
        /\ res.status = "err"
        /\ res.err = it[FirstErr].err

\* C5: for a window whose records are all Ok and whose amounts do not sum
\* to zero, describe() returns exactly one Stat per condition of the
\* window, each with value (sum of the condition's amounts) / (sum of all
\* amounts of the window).
C5_DescribeShares ==
    (res.op = "describe" /\ WindowAllOk /\ WindowTotal # 0) =>
        /\ res.status = "ok"
        /\ res.table # None
        /\ Len(Data) = Cardinality(WindowConditions)
        /\ {Data[i].name : i \in DOMAIN Data} = WindowConditions
        /\ \A i \in DOMAIN Data :
              Data[i].value = F64Div(SumAmounts(it, WindowFirst, WindowLast, {Data[i].name}),
                                     WindowTotal)

\* C6: describe() on a window that holds records, all Ok and all of amount
\* 0, returns no Stat at all.
C6_ZeroTotalNoStats ==
    (res.op = "describe" /\ Window # {} /\ WindowAllOk /\ WindowTotal = 0) =>
        /\ res.status = "ok"
        /\ res.table # None
        /\ Data = <<>>

\* C7: describe() on an empty window (take = 0, or a skip that reaches the
\* end of the source, or an exhausted source) returns Ok with no Stat: no
\* error, and no Stat means no division was made.
C7_EmptyWindowNoStats ==
    (res.op = "describe" /\ Window = {}) =>
        /\ res.status = "ok"
        /\ res.table # None
        /\ Data = <<>>

C7_Witness ==
    /\ res.op = "describe" /\ entry.take = Some(0) /\ entry.pos < Len(it)
    /\ res.status = "ok" /\ Data = <<>>

---------------------------------------------------------------------------
\* Properties of the Table

Columns(row) == IF row.kind = "Item" THEN 5 ELSE 2

\* The width leaves a row of n cells less than the 3 characters a cell needs
Narrow(width, n) == n = 0 \/ width \div n < 3

TooNarrow(t) ==
    \/ t.width < 2
    \/ t.header # None /\ Narrow(t.width, Len(t.header[1]))
    \/ \E i \in DOMAIN t.data : Narrow(t.width, Columns(t.data[i]))

\* C8: rendering a Table whose width is too small for its columns or its
\* borders, or whose header has no cells, is rejected with an error: it
\* neither panics on `width / n - 3`, `width - 2` or `width / 0`, nor
\* renders.
C8_NarrowTableRejected ==
    (out.status # "none" /\ TooNarrow(table)) => out.status = "rejected"

\* C9: render writes the top border, then the header line and the middle
\* border if and only if a header is set, then one line per data row in
\* the order of the rows, then the bottom border: n + 4 lines with a
\* header and n + 2 without, and no line break after the last.
C9_LinesInOrder ==
    (out.status = "ok") =>
        LET n == Len(table.data)
            h == IF table.header = None THEN 0 ELSE 2
            l == out.lines
        IN /\ Len(l) = n + 2 + h
           /\ l[1].kind = "top"
           /\ table.header # None => l[2].kind = "header" /\ l[3].kind = "middle"
           /\ \A i \in 1..n : l[1 + h + i].kind = "row" /\ l[1 + h + i].row = i
           /\ l[Len(l)].kind = "bottom"
           /\ \A i \in DOMAIN l : l[i].nl = (i < Len(l))

C9_Witness ==
    /\ out.status = "ok" /\ table.header # None /\ Len(table.data) = 2
    /\ table.data[1] # table.data[2]
    /\ Len(out.lines) = 6 /\ out.lines[5].row = 2

\* Every cell's content is no longer than the width of its cell
Fits(cells, width) ==
    \A i \in DOMAIN cells : cells[i] <= width \div Len(cells) - 3

CellsFit(t) ==
    /\ t.header # None => Fits(t.header[1], t.width)
    /\ \A i \in DOMAIN t.data : Fits(t.data[i].cells, t.width)

\* C10: in a rendered table whose cells fit, every line, border or row, is
\* exactly `width` characters long, whether or not the width is a multiple
\* of the number of columns.
C10_EveryLineWidthLong ==
    (out.status = "ok" /\ CellsFit(table)) =>
        \A i \in DOMAIN out.lines : out.lines[i].len = table.width

---------------------------------------------------------------------------
\* More properties of the Zomboid

\* A step that is a stream() or describe() call: the setters leave all of
\* these alone.
CallStep == <<pos, res, entry, ncalls>>' # <<pos, res, entry, ncalls>>

\* C11: over any sequence of set_skip, set_take, stream() and describe()
\* calls, failing ones included, the cursor never moves back, and what a
\* call delivers lies after everything consumed before it: a stream() that
\* succeeds returns the records at the positions from cursor + skip + 1 to
\* the new cursor, a describe() that succeeds has aggregated exactly the
\* conditions at those positions.  So no position reaches two calls and
\* the positions of later calls are the later ones.
C11_ForwardOnly ==
    [][/\ pos' >= pos
       /\ pos' <= Len(it)
       /\ (CallStep /\ res'.status = "ok") =>
            LET first == pos + unwrap_or(skip_, 0) + 1
            IN /\ first > pos
               /\ res'.op = "stream" =>
                    res'.table[1].data = SubSeq(it, first, pos')
               /\ res'.op = "describe" =>
                    {res'.table[1].data[i].name : i \in DOMAIN res'.table[1].data}
                        = {it[i].condition : i \in first..pos'}]_vars

C11_Witness ==
    /\ ncalls = 2 /\ res.op = "describe" /\ res.status = "ok"
    /\ entry.pos = 1 /\ entry.skip = Some(1) /\ pos = 3
    /\ Len(Data) = 1 /\ Data[1].name = it[3].condition

\* C12: a new Zomboid has skip and take unset; a step that changes one of
\* the two window fields (a set_skip or a set_take) changes nothing else,
\* neither the other field nor the cursor, the source or the last result;
\* and a stream() or describe() call changes neither field.
C12_SettersOnlySetTheirField ==
    /\ skip_ = None /\ take_ = None
    /\ [][/\ skip_' # skip_ => UNCHANGED <<it, pos, take_, res, entry, ncalls>>
          /\ take_' # take_ => UNCHANGED <<it, pos, skip_, res, entry, ncalls>>
          /\ CallStep => UNCHANGED <<skip_, take_>>]_vars

\* A skip set to 1 for an earlier call is unset again, the take as set
C12_Witness ==
    /\ ncalls = 1 /\ entry.skip = Some(1) /\ entry.take = None
    /\ skip_ = None /\ take_ = Some(1) /\ pos = entry.pos + 2

\* C13: on a source whose records are all Ok and of which n are unconsumed,
\* a stream() with window (s, t) consumes exactly min(n, s + t) records,
\* also when t = 0.
C13_StreamConsumesSkipAndTake ==
    (res.op = "stream" /\ AllOk(it)) =>
        LET n == Len(it) - entry.pos
        IN pos - entry.pos =
             IF entry.take = None THEN n ELSE Min(n, EntrySkip + entry.take[1])

\* C14: the grand total and the per-condition totals of describe() are the
\* exact sums of the amounts of its window, in every build: no sum wraps
\* and none panics.
C14_TotalsExact ==
    (res.op = "describe" /\ WindowAllOk) =>
        \A checks \in BOOLEAN :
            LET a == Accumulate(it, entry.pos, EntrySkip,
                                unwrap_or(entry.take, UsizeMax), EmptyMap, 0, checks)
            IN /\ a.status = "ok"
               /\ a.total = WindowTotal
               /\ \A c \in DOMAIN a.map :
                     a.map[c] = SumAmounts(it, WindowFirst, WindowLast, {c})

====
